---- MODULE Spec2Model ----
(***************************************************************************)
(* Model of the sysmon wasm core (src/wasm/src/lib.rs): the thread-local   *)
(* slot SYSMON_STATE, the two exported calls init and get_sys_stats, and   *)
(* the SysMonState refresh/render methods.                                 *)
(*                                                                         *)
(* Strings are sequences of one-character strings so that prefixes and     *)
(* separators can be inspected.  A float reading is an exact dyadic        *)
(* rational <<num, den>>; "{:.2}" formatting is computed digit by digit.   *)
(* The three private-use glyphs of ICONS are the characters "U+F4BC",      *)
(* "U+EFC5" and "U+F2CA".                                                  *)
(***************************************************************************)
EXTENDS Integers, Sequences, FiniteSets, TLC

VARIABLES
    SYSMON_STATE,   \* the thread-local Option<SysMonState>
    os,             \* what the operating system reports during the current call
    result,         \* the last call: its name, Ok/Err, and the returned string
    prev,           \* the call before it, and whether the OS showed it no component
    replaced,       \* what the most recent init found in the slot and dropped
    steps,          \* SysMonState before/after each sub-refresh of the last update_all
    lastInit,       \* arguments of the most recent init call
    SYSMON_STATE2,  \* second run (same calls, other update_interval arguments)
    result2

vars == <<SYSMON_STATE, os, result, prev, replaced, steps, lastInit,
          SYSMON_STATE2, result2>>

----------------------------------------------------------------------------
(* Bounds and input sets *)

MaxComponents == 2

DefaultInterval == 2000

MemDivisor == 1024

Intervals == {0, DefaultInterval}

\* Two moments of the machine.  cpu is what global_cpu_usage() would give after
\* a refresh, an f32 percentage: 12.34375 and 50.125 (a rounding tie);
\* mem is what total_memory()/used_memory() would give, native u64 values.
MachineReadings ==
    {[cpu |-> <<395, 32>>, mem |-> [total |-> 4194304, used |-> 1234567]],
     [cpu |-> <<401, 8>>, mem |-> [total |-> 1024, used |-> 128]]}

\* component.temperature(): f32 degrees -5.5 and 61.005859375
TempReadings == {<<-11, 2>>, <<62470, 1024>>}

RECURSIVE SeqsUpTo(_, _)
SeqsUpTo(S, n) ==
    IF n = 0 THEN {<<>>}
    ELSE LET shorter == SeqsUpTo(S, n - 1)
         IN  shorter \cup {Append(s, x) : s \in shorter, x \in S}

\* Components::new_with_refreshed_list(): the sensors found, in enumeration order
ComponentLists == SeqsUpTo(TempReadings, MaxComponents)

OSReadings ==
    {[cpu |-> m.cpu, mem |-> m.mem, components |-> c] :
        m \in MachineReadings, c \in ComponentLists}

----------------------------------------------------------------------------
(* Strings and "{:.2}" formatting *)

DigitChars == <<"0", "1", "2", "3", "4", "5", "6", "7", "8", "9">>

RECURSIVE IntToChars(_)
IntToChars(n) ==
    IF n < 10 THEN <<DigitChars[n + 1]>>
    ELSE Append(IntToChars(n \div 10), DigitChars[(n % 10) + 1])

\* hundredths of num/den (num >= 0), rounded half to even as Rust's exact
\* float formatting does
RoundHundredths(num, den) ==
    LET q == (num * 100) \div den
        r == (num * 100) % den
    IN  IF 2 * r > den THEN q + 1
        ELSE IF 2 * r = den THEN q + (q % 2)
        ELSE q

\* format!("{:.2}", num/den)
Fmt2(num, den) ==
    LET h == RoundHundredths(IF num < 0 THEN -num ELSE num, den)
        body == IntToChars(h \div 100) \o <<".">>
                \o <<DigitChars[((h % 100) \div 10) + 1], DigitChars[(h % 10) + 1]>>
    IN  IF num < 0 THEN <<"-">> \o body ELSE body

ICONS == <<"U+F4BC", "U+EFC5", "U+F2CA">>

CpuLabel == <<"C", "P", "U", ":", " ">>
MemLabel == <<"M", "e", "m", ":", " ">>
TempLabel == <<"T", "e", "m", "p", ":", " ">>
GBSuffix == <<" ", "G", "B">>
DegSuffix == <<"°", "C">>
Separator == <<" ", "|", " ">>
NotInitializedMsg ==
    <<"S", "y", "s", "t", "e", "m", " ", "m", "o", "n", "i", "t", "o", "r", " ",
      "n", "o", "t", " ", "i", "n", "i", "t", "i", "a", "l", "i", "z", "e", "d">>

----------------------------------------------------------------------------
(* SysMonState *)

None == [tag |-> "None"]

\* System::new_all() followed by refresh_all(): the handle holds current values
SystemNewAll(o) == [cpu |-> o.cpu, total |-> o.mem.total, used |-> o.mem.used]

new(config, o) ==
    [tag |-> "Some",
     config |-> config,
     sys |-> SystemNewAll(o),
     cpu |-> <<>>,
     mem |-> <<>>,
     temp |-> <<>>]

\* update_cpu_usage without the refresh_cpu_all() before the read
update_cpu_usage_no_refresh(self, o) ==
    LET cpu == self.sys.cpu
    IN  IF self.config.use_icons
        THEN [self EXCEPT !.cpu = <<ICONS[1], " ">> \o Fmt2(cpu[1], cpu[2]) \o <<"%">>]
        ELSE [self EXCEPT !.cpu = CpuLabel \o Fmt2(cpu[1], cpu[2]) \o <<"%">>]

update_cpu_usage(self, o) ==
    LET sys1 == [self.sys EXCEPT !.cpu = o.cpu]          \* refresh_cpu_all()
        cpu == sys1.cpu                                  \* global_cpu_usage()
    IN  IF self.config.use_icons
        THEN [self EXCEPT !.sys = sys1,
                          !.cpu = <<ICONS[1], " ">> \o Fmt2(cpu[1], cpu[2]) \o <<"%">>]
        ELSE [self EXCEPT !.sys = sys1,
                          !.cpu = CpuLabel \o Fmt2(cpu[1], cpu[2]) \o <<"%">>]

\* update_mem_usage storing its text in the cpu field
update_mem_usage_wrong_field(self, o) ==
    LET sys1 == [self.sys EXCEPT !.total = o.mem.total, !.used = o.mem.used]
        text == Fmt2(sys1.used, MemDivisor) \o <<"/">>
                \o Fmt2(sys1.total, MemDivisor) \o GBSuffix
    IN  IF self.config.use_icons
        THEN [self EXCEPT !.sys = sys1, !.cpu = <<ICONS[2], " ">> \o text]
        ELSE [self EXCEPT !.sys = sys1, !.cpu = MemLabel \o text]

update_mem_usage(self, o) ==
    LET sys1 == [self.sys EXCEPT !.total = o.mem.total,  \* refresh_memory()
                                 !.used = o.mem.used]
        total_mem == Fmt2(sys1.total, MemDivisor)
        used_mem == Fmt2(sys1.used, MemDivisor)
    IN  IF self.config.use_icons
        THEN [self EXCEPT !.sys = sys1,
                          !.mem = <<ICONS[2], " ">> \o used_mem \o <<"/">>
                                  \o total_mem \o GBSuffix]
        ELSE [self EXCEPT !.sys = sys1,
                          !.mem = MemLabel \o used_mem \o <<"/">>
                                  \o total_mem \o GBSuffix]

\* update_temp that always writes the text label
update_temp_text_only(self, o) ==
    IF Len(o.components) > 0
    THEN [self EXCEPT !.temp = TempLabel
                               \o Fmt2(o.components[1][1], o.components[1][2])
                               \o DegSuffix]
    ELSE self

\* update_temp that blanks the text when no component is found
update_temp_clears(self, o) ==
    IF Len(o.components) > 0
    THEN IF self.config.use_icons
         THEN [self EXCEPT !.temp = <<ICONS[3], " ">>
                                    \o Fmt2(o.components[1][1], o.components[1][2])
                                    \o DegSuffix]
         ELSE [self EXCEPT !.temp = TempLabel
                                    \o Fmt2(o.components[1][1], o.components[1][2])
                                    \o DegSuffix]
    ELSE [self EXCEPT !.temp = <<>>]

update_temp(self, o) ==
    LET components == o.components       \* Components::new_with_refreshed_list()
    IN  IF Len(components) > 0
        THEN LET temp == components[1]
             IN  IF self.config.use_icons
                 THEN [self EXCEPT !.temp = <<ICONS[3], " ">>
                                            \o Fmt2(temp[1], temp[2]) \o DegSuffix]
                 ELSE [self EXCEPT !.temp = TempLabel
                                            \o Fmt2(temp[1], temp[2]) \o DegSuffix]
        ELSE self

\* update_all that honours update_interval: nothing is refreshed when it is 0
update_all_throttled(self, o) ==
    IF self.config.update_interval = 0
    THEN <<self, self, self, self>>
    ELSE LET s1 == update_cpu_usage(self, o)
             s2 == update_mem_usage(s1, o)
             s3 == update_temp(s2, o)
         IN  <<self, s1, s2, s3>>

\* the SysMonState before the call and after each of the three sub-refreshes
update_all(self, o) ==
    LET s1 == update_cpu_usage(self, o)
        s2 == update_mem_usage(s1, o)
        s3 == update_temp(s2, o)
    IN  <<self, s1, s2, s3>>

----------------------------------------------------------------------------
(* The exported calls, as functions of the slot *)

NoCall == [op |-> "none", ok |-> TRUE, val |-> <<>>]

\* init that swaps the configuration of a stored SysMonState in place
init_call_keep_texts(slot, update_interval, use_icons, o) ==
    LET config == [update_interval |-> update_interval, use_icons |-> use_icons]
    IN  [slot |-> IF slot.tag = "Some" THEN [slot EXCEPT !.config = config]
                                       ELSE new(config, o),
         steps |-> <<>>,
         ret |-> [op |-> "init", ok |-> TRUE, val |-> <<>>]]

\* init: the new slot content and the returned Result
init_call(slot, update_interval, use_icons, o) ==
    LET config == [update_interval |-> update_interval, use_icons |-> use_icons]
    IN  [slot |-> new(config, o),
         steps |-> <<>>,
         ret |-> [op |-> "init", ok |-> TRUE, val |-> <<>>]]

\* get_sys_stats that builds a default SysMonState when the slot is None
get_sys_stats_call_lazy_default(slot, o) ==
    LET cur == IF slot.tag = "Some" THEN slot
               ELSE new([update_interval |-> DefaultInterval, use_icons |-> FALSE], o)
        trace == update_all(cur, o)
        state == trace[Len(trace)]
    IN  [slot |-> state,
         steps |-> trace,
         ret |-> [op |-> "get_sys_stats", ok |-> TRUE,
                  val |-> state.cpu \o Separator \o state.mem
                          \o Separator \o state.temp]]

\* get_sys_stats that joins memory before CPU
get_sys_stats_call_swapped(slot, o) ==
    IF slot.tag = "Some"
    THEN LET trace == update_all(slot, o)
             state == trace[Len(trace)]
         IN  [slot |-> state,
              steps |-> trace,
              ret |-> [op |-> "get_sys_stats", ok |-> TRUE,
                       val |-> state.mem \o Separator \o state.cpu
                               \o Separator \o state.temp]]
    ELSE [slot |-> slot,
          steps |-> <<>>,
          ret |-> [op |-> "get_sys_stats", ok |-> FALSE, val |-> NotInitializedMsg]]

\* get_sys_stats that takes the SysMonState out of the slot (Option::take)
get_sys_stats_call_take(slot, o) ==
    IF slot.tag = "Some"
    THEN LET trace == update_all(slot, o)
             state == trace[Len(trace)]
         IN  [slot |-> None,
              steps |-> trace,
              ret |-> [op |-> "get_sys_stats", ok |-> TRUE,
                       val |-> state.cpu \o Separator \o state.mem
                               \o Separator \o state.temp]]
    ELSE [slot |-> slot,
          steps |-> <<>>,
          ret |-> [op |-> "get_sys_stats", ok |-> FALSE, val |-> NotInitializedMsg]]

\* get_sys_stats: the slot afterwards, the update_all trace, the returned Result
get_sys_stats_call(slot, o) ==
    IF slot.tag = "Some"
    THEN LET trace == update_all(slot, o)
             state == trace[Len(trace)]
         IN  [slot |-> state,
              steps |-> trace,
              ret |-> [op |-> "get_sys_stats", ok |-> TRUE,
                       val |-> state.cpu \o Separator \o state.mem
                               \o Separator \o state.temp]]
    ELSE [slot |-> slot,
          steps |-> <<>>,
          ret |-> [op |-> "get_sys_stats", ok |-> FALSE, val |-> NotInitializedMsg]]

----------------------------------------------------------------------------
(* Single run *)

Remember == [op |-> result.op, ok |-> result.ok,
             no_components |-> (os.components = <<>>)]

\* the part of a dropped SysMonState that later formulas look at
Dropped(slot) ==
    IF slot.tag = "Some"
    THEN [tag |-> "Some", use_icons |-> slot.config.use_icons, temp |-> slot.temp]
    ELSE None

Init ==
    /\ SYSMON_STATE = None
    /\ os \in OSReadings
    /\ result = NoCall
    /\ prev = [op |-> "none", ok |-> TRUE, no_components |-> (os.components = <<>>)]
    /\ replaced = None
    /\ steps = <<>>
    /\ lastInit = None
    /\ SYSMON_STATE2 = None
    /\ result2 = NoCall

init(update_interval, use_icons) ==
    /\ os' \in OSReadings
    /\ LET r == init_call(SYSMON_STATE, update_interval, use_icons, os')
       IN  /\ SYSMON_STATE' = r.slot
           /\ steps' = r.steps
           /\ result' = r.ret
    /\ prev' = Remember
    /\ replaced' = Dropped(SYSMON_STATE)
    /\ lastInit' = [tag |-> "Some", update_interval |-> update_interval,
                    use_icons |-> use_icons]

get_sys_stats ==
    /\ os' \in OSReadings
    /\ LET r == get_sys_stats_call(SYSMON_STATE, os')
       IN  /\ SYSMON_STATE' = r.slot
           /\ steps' = r.steps
           /\ result' = r.ret
    /\ prev' = Remember
    /\ UNCHANGED <<lastInit, replaced>>

Next ==
    \/ \E i \in Intervals, u \in BOOLEAN : init(i, u) /\ UNCHANGED <<SYSMON_STATE2, result2>>
    \/ get_sys_stats /\ UNCHANGED <<SYSMON_STATE2, result2>>

Spec == Init /\ [][Next]_vars

----------------------------------------------------------------------------
(* Two runs given the same calls and the same OS readings, differing only  *)
(* in the update_interval arguments                                        *)

init2(update_interval) ==
    LET r == init_call(SYSMON_STATE2, update_interval, lastInit'.use_icons, os')
    IN  /\ SYSMON_STATE2' = r.slot
        /\ result2' = r.ret

get_sys_stats2 ==
    LET r == get_sys_stats_call(SYSMON_STATE2, os')
    IN  /\ SYSMON_STATE2' = r.slot
        /\ result2' = r.ret

NextPair ==
    \/ \E i \in Intervals, j \in Intervals, u \in BOOLEAN : init(i, u) /\ init2(j)
    \/ get_sys_stats /\ get_sys_stats2

SpecPair == Init /\ [][NextPair]_vars

----------------------------------------------------------------------------
(* Inspecting returned strings *)

StartsWith(s, p) == Len(s) >= Len(p) /\ SubSeq(s, 1, Len(p)) = p

\* positions at which p occurs in s
Occurrences(s, p) == {i \in 1..Len(s) : i + Len(p) - 1 <= Len(s)
                                         /\ SubSeq(s, i, i + Len(p) - 1) = p}

\* s cut at every " | "
RECURSIVE Segments(_)
Segments(s) ==
    LET occ == Occurrences(s, <<" ", "|", " ">>)
    IN  IF occ = {} THEN <<s>>
        ELSE LET i == CHOOSE k \in occ : \A l \in occ : k <= l
             IN  <<SubSeq(s, 1, i - 1)>> \o Segments(SubSeq(s, i + 3, Len(s)))

Sampled == result.op = "get_sys_stats" /\ result.ok

TextPrefixes == <<<<"C", "P", "U", ":", " ">>, <<"M", "e", "m", ":", " ">>,
                  <<"T", "e", "m", "p", ":", " ">>>>

IconPrefixes == <<<<"U+F4BC", " ">>, <<"U+EFC5", " ">>, <<"U+F2CA", " ">>>>

----------------------------------------------------------------------------
(* Claims *)

\* C1: a get_sys_stats call that finds the slot None returns
\* Err("System monitor not initialized"), runs no sub-refresh and leaves the
\* slot None.
C1_UninitializedSampleFails ==
    [][(SYSMON_STATE = None /\ result'.op = "get_sys_stats")
        => /\ ~result'.ok
           /\ result'.val = <<"S", "y", "s", "t", "e", "m", " ",
                              "m", "o", "n", "i", "t", "o", "r", " ",
                              "n", "o", "t", " ",
                              "i", "n", "i", "t", "i", "a", "l", "i", "z", "e", "d">>
           /\ steps' = <<>>
           /\ SYSMON_STATE' = None]_vars

C1_Witness ==
    /\ result.op = "get_sys_stats" /\ ~result.ok
    /\ prev.op = "get_sys_stats" /\ ~prev.ok
    /\ SYSMON_STATE = None

C6_MemoryDividedTwice ==
    Sampled
        => Segments(result.val)[2]
             = (IF lastInit.use_icons THEN IconPrefixes[2] ELSE TextPrefixes[2])
               \o Fmt2(os.mem.used, 1024 * 1024) \o <<"/">>
               \o Fmt2(os.mem.total, 1024 * 1024) \o <<" ", "G", "B">>

\* C7: init always returns Ok and leaves a SysMonState in the slot, and no
\* call takes the slot from Some back to None.
C7_SlotNeverReturnsToNone ==
    /\ [](result.op = "init" => result.ok /\ SYSMON_STATE # None)
    /\ [][SYSMON_STATE # None => SYSMON_STATE' # None]_vars

C7_Witness ==
    /\ SYSMON_STATE # None
    /\ replaced # None
    /\ result.op = "get_sys_stats" /\ prev.op = "get_sys_stats"

\* C8: two runs given the same calls and OS readings but different
\* update_interval arguments return the same result from every call.
C8_IntervalHasNoEffect ==
    /\ result2 = result
    /\ (SYSMON_STATE = None) = (SYSMON_STATE2 = None)

C8_Witness ==
    /\ Sampled /\ prev.op = "get_sys_stats" /\ prev.ok
    /\ SYSMON_STATE.config.update_interval # SYSMON_STATE2.config.update_interval

\* C9: update_all runs cpu, mem, temp in that order and each step writes only
\* its own text: after the first step cpu is rendered and mem and temp are
\* untouched, the second leaves cpu and temp, the third leaves cpu and mem.
C9_SubRefreshesWriteOwnField ==
    steps # <<>>
        => /\ Len(steps) = 4
           /\ steps[4] = SYSMON_STATE
           /\ steps[2].cpu # <<>>
           /\ steps[2].mem = steps[1].mem /\ steps[2].temp = steps[1].temp
           /\ steps[3].mem # <<>>
           /\ steps[3].cpu = steps[2].cpu /\ steps[3].temp = steps[2].temp
           /\ steps[4].cpu = steps[3].cpu /\ steps[4].mem = steps[3].mem

C9_Witness ==
    /\ Sampled /\ os.components = <<>>
    /\ steps[1].cpu # <<>> /\ steps[1].cpu # steps[4].cpu
    /\ steps[1].mem # steps[4].mem
    /\ steps[4].temp # <<>>

====
